---- MODULE Spec2Model ----
(***************************************************************************)
(* Dynacomp: the load-path driver HeartModelDynaComp (heart_model.py), the *)
(* geometry tagger create_geometry with its face key triangle_key          *)
(* (create_geometry.py) and the fiber-angle merge get_fiber_angles.        *)
(*                                                                         *)
(* The finite-element solve, the cavity-volume integral and the kinematics *)
(* are library calls.  A deformation state is recorded by the load pair it *)
(* was solved under and by whether that solve converged; a cavity volume,  *)
(* a deformation gradient and a strain are recorded by the state they are  *)
(* computed from.                                                          *)
(***************************************************************************)
EXTENDS Integers, Sequences, FiniteSets, TLC

VARIABLES
    \* ---- HeartModelDynaComp ----
    pc,               \* position of the call in flight ("idle" between calls)
    op,               \* operation in flight / last finished
    args,             \* its arguments
    outcome,          \* "none" | "returned" | "raised" for the last call
    ret,              \* value returned by the last call
    activation,       \* self.activation
    lv_pressure,      \* self.lv_pressure
    state,            \* self.problem.state
    F0,               \* self.F0
    E_ff,             \* self.E_ff
    myocardial_work,  \* self.myocardial_work
    t,                \* self.t
    xdmf,             \* the three time-series files written by save
    log,              \* messages logged since the entry of the last call
    backup,           \* dVda locals state_backup, pressure_backup, activation_backup
    loc,              \* dVda locals a_i, v_i
    pre,              \* what the caller observed at the entry of the last call
    errors,           \* number of calls that ended in an error
    mesh,             \* self.geometry.mesh: the displacements its vertices were moved by
    \* ---- the boundary conditions built by __init__ ----
    bpc,              \* position inside the construction
    bc_params_arg,    \* the argument bc_params
    bc_params,        \* self.bc_params
    bcs,              \* self.bcs
    \* ---- average_array on its own ----
    vpc, arrays, average_y,
    \* ---- create_geometry ----
    gpc,              \* position inside create_geometry
    msh,              \* the mesh file read by meshio
    ffun,             \* facet marker function
    files,            \* files written so far
    keys,             \* epi_keys, endo_keys, base_keys
    todo,             \* facets the tagging loop has still to visit
    writes,           \* number of marker writes per facet
    \* ---- triangle_key on its own ----
    kpc, coords, coords2, key1, key2,
    \* ---- get_fiber_angles on its own ----
    apc, fiber_angles, angles

driverVars == <<pc, op, args, outcome, ret, activation, lv_pressure, state, F0,
                E_ff, myocardial_work, t, xdmf, log, backup, loc, pre, errors,
                mesh>>
geoVars    == <<gpc, msh, ffun, files, keys, todo, writes>>
keyVars    == <<kpc, coords, coords2, key1, key2>>
angleVars  == <<apc, fiber_angles, angles>>
bcVars     == <<bpc, bc_params_arg, bc_params, bcs>>
avgVars    == <<vpc, arrays, average_y>>
vars       == <<driverVars, geoVars, keyVars, angleVars, bcVars, avgVars>>

----------------------------------------------------------------------------
\* Bounds of the model.

\* largest activation target, in units of ActUnit
MaxActSteps == 1
\* largest pressure target, in units of PresUnit
MaxPressure == 1
\* number of records the buffers and the time series may hold together
MaxRecords == 2
\* number of failed calls after which the caller stops using the driver
MaxErrors == 1
\* number of ranks of the communicator
CommSize == 2

\* activation is counted in hundredths so that a * (1 + 0.01) is exact
ActUnit == 100
\* delta_a_percent = DeltaNum / DeltaDen
DeltaNum == 1
DeltaDen == 100

\* pressure is counted in halves of the unit the targets are given in
PresUnit == 2
\* the increment of one sub-step of pulse.iterate.iterate, per control
ActStep == 50
PresStep == 1

Activations == {k * ActUnit : k \in 0..MaxActSteps}
Pressures   == {k * PresUnit : k \in 0..MaxPressure}
Ranks       == 0..(CommSize - 1)

----------------------------------------------------------------------------
\* Library calls seen from the driver.

\* self.problem.solve(): the state solved under the current controls, or,
\* when Newton does not converge, a non-equilibrium state
solve(a, p, conv) == [a |-> a, p |-> p, ok |-> conv]

\* geometry.cavity_volume(u = state.sub(0))
cavity_volume(s) == [vol_of |-> s]

\* pulse.kinematics.DeformationGradient(u)
DeformationGradient(s) == [identity |-> FALSE, grad_of |-> s]

\* dolfin.Identity(dim): the gradient of no displacement at all
Identity == [identity |-> TRUE, grad_of |-> solve(0, 0, TRUE)]

\* one sub-step of pulse.iterate.iterate: the control moves toward the target
\* by at most one step; a control already at its target stays there and the
\* sub-step is the one solve at the target
iterate(control, target, step) ==
    IF control < target
    THEN (IF target - control <= step THEN target ELSE control + step)
    ELSE (IF control - target <= step THEN target ELSE control - step)

NoValue == [kind |-> "none"]
NoBackup == [kind |-> "none"]

\* a mesh is recorded by the displacements its vertices were moved by, the
\* mesh as constructed by none
ReferenceMesh == <<>>

\* a message logged under "if self.comm.rank == 0": every rank runs the same
\* line, the ranks passing the gate emit it
Gate(r) == r = 0
Emit(m) ==
    LET emitting == SelectSeq([i \in 1..CommSize |-> i - 1], Gate) IN
    [i \in 1..Len(emitting) |-> [msg |-> m.msg, value |-> m.value, rank |-> emitting[i]]]

\* the same under "if self.comm.Get_rank() == 1", the gate of create_geometry
Gate_create_geometry(r) == r = 1
Emit_create_geometry(m) ==
    LET emitting == SelectSeq([i \in 1..CommSize |-> i - 1], Gate_create_geometry) IN
    [i \in 1..Len(emitting) |-> [msg |-> m.msg, value |-> m.value, rank |-> emitting[i]]]

Observed == [activation |-> activation, lv_pressure |-> lv_pressure,
             state |-> state]

----------------------------------------------------------------------------
DriverInit_unsolved ==
    /\ pc = "idle" /\ op = "__init__" /\ args = NoValue
    /\ outcome = "returned" /\ ret = NoValue
    /\ lv_pressure = 0
    /\ activation = 0
    /\ F0 = Identity
    /\ E_ff = <<>>
    /\ myocardial_work = <<>>
    /\ t = 0
    /\ state = solve(0, 0, FALSE)
    /\ xdmf = [u |-> <<>>, E |-> <<>>, activation |-> <<>>]
    /\ log = <<>>
    /\ backup = NoBackup
    /\ loc = NoValue
    /\ pre = NoValue
    /\ errors = 0
    /\ mesh = ReferenceMesh

\* HeartModelDynaComp.__init__
DriverInit ==
    /\ pc = "idle" /\ op = "__init__" /\ args = NoValue
    /\ outcome = "returned" /\ ret = NoValue
    /\ lv_pressure = 0
    /\ activation = 0
    /\ F0 = Identity
    /\ E_ff = <<>>
    /\ myocardial_work = <<>>
    /\ t = 0
    /\ state = solve(0, 0, TRUE)
    /\ xdmf = [u |-> <<>>, E |-> <<>>, activation |-> <<>>]
    /\ log = <<>>
    /\ backup = NoBackup
    /\ loc = NoValue
    /\ pre = NoValue
    /\ errors = 0
    /\ mesh = ReferenceMesh

\* the caller starts a call
Enter(o, a) ==
    /\ pc = "idle"
    /\ errors < MaxErrors
    /\ op' = o /\ args' = a
    /\ pre' = Observed

\* the call goes on at nextpc
Goto(nextpc) == pc' = nextpc /\ outcome' = "none" /\ ret' = NoValue /\ errors' = errors

Return(v) == pc' = "idle" /\ outcome' = "returned" /\ ret' = v /\ errors' = errors
Raise     == pc' = "idle" /\ outcome' = "raised" /\ ret' = NoValue
             /\ errors' = errors + 1

\* ---- compute_volume ----
compute_volume_call_pressure_first(A, P) ==
    \E a \in A, p \in P :
        /\ Enter("compute_volume", [a |-> a, p |-> p])
        /\ Goto("cv_pressure")
        /\ log' = <<>>
        /\ UNCHANGED <<activation, lv_pressure, state, F0, E_ff,
                       myocardial_work, t, xdmf, backup, loc, mesh>>

\* the caller asks for a target pair drawn from A x P
compute_volume_call(A, P) ==
    \E a \in A, p \in P :
        /\ Enter("compute_volume", [a |-> a, p |-> p])
        /\ Goto("cv_activation")
        /\ log' = <<>>
        /\ UNCHANGED <<activation, lv_pressure, state, F0, E_ff,
                       myocardial_work, t, xdmf, backup, loc, mesh>>

\* what a non-converging sub-step of iterate does to the call
iterate_failed_swallow(nextpc) == Goto(nextpc)
iterate_failed(nextpc) == Raise

\* pulse.iterate.iterate(self.problem, self.activation, activation_value)
iterate_activation ==
    /\ pc = "cv_activation"
    /\ LET nxt == iterate(activation, args.a, ActStep) IN
       /\ activation' = nxt
       /\ \E conv \in BOOLEAN :
            /\ state' = solve(nxt, lv_pressure, conv)
            /\ IF conv
               THEN /\ pc' = IF nxt = args.a THEN "cv_pressure" ELSE "cv_activation"
                    /\ UNCHANGED <<outcome, ret, errors>>
               ELSE iterate_failed("cv_pressure")
    /\ UNCHANGED <<op, args, lv_pressure, F0, E_ff, myocardial_work, t, xdmf,
                   log, backup, loc, pre, mesh>>

\* pulse.iterate.iterate(self.problem, self.lv_pressure, pressure_value)
iterate_pressure ==
    /\ pc = "cv_pressure"
    /\ LET nxt == iterate(lv_pressure, args.p, PresStep) IN
       /\ lv_pressure' = nxt
       /\ \E conv \in BOOLEAN :
            /\ state' = solve(activation, nxt, conv)
            /\ IF conv
               THEN /\ pc' = IF nxt = args.p THEN "cv_volume" ELSE "cv_pressure"
                    /\ UNCHANGED <<outcome, ret, errors>>
               ELSE iterate_failed("cv_volume")
    /\ UNCHANGED <<op, args, activation, F0, E_ff, myocardial_work, t, xdmf,
                   log, backup, loc, pre, mesh>>

\* volume_current = cavity_volume(...); log; return volume_current
compute_volume_return ==
    /\ pc = "cv_volume"
    /\ LET volume_current == cavity_volume(state) IN
       /\ log' = log \o Emit([msg |-> "Computed volume", value |-> volume_current])
       /\ IF op = "initial_loading"
          THEN /\ pc' = "il_F0"
               /\ loc' = [volume |-> volume_current]
               /\ UNCHANGED <<outcome, ret, errors>>
          ELSE /\ Return([kind |-> "volume", value |-> volume_current])
               /\ UNCHANGED loc
    /\ UNCHANGED <<op, args, activation, lv_pressure, state, F0, E_ff,
                   myocardial_work, t, xdmf, backup, pre, mesh>>

----------------------------------------------------------------------------
\* ---- assign_state_variables ----
\* the pair (activation, lv_pressure) after assign_state_variables
assign_state_variables(activation_value, pressure_value) ==
    [activation |-> activation_value, lv_pressure |-> pressure_value]

\* ---- dVda ----
\* log, back up, assign_state_variables(activation_value, pressure_value)
dVda_call(A, P) ==
    \E a \in A, p \in P :
        /\ Enter("dVda", [a |-> a, p |-> p])
        /\ Goto("dv_solve_i")
        /\ log' = Emit([msg |-> "Computing dV/da", value |-> [a |-> a, p |-> p]])
        /\ backup' = [state |-> state, pressure |-> lv_pressure,
                      activation |-> activation]
        /\ LET s == assign_state_variables(a, p) IN
           /\ activation' = s.activation
           /\ lv_pressure' = s.lv_pressure
        /\ UNCHANGED <<state, F0, E_ff, myocardial_work, t, xdmf, loc, mesh>>

\* self.problem.solve(); a_i; v_i; a_f = a_i * (1 + delta_a_percent);
\* self.activation.assign(a_f)
dVda_solve_i ==
    /\ pc = "dv_solve_i"
    /\ \E conv \in BOOLEAN :
         /\ state' = solve(activation, lv_pressure, conv)
         /\ IF conv
            THEN LET a_i == activation
                     v_i == cavity_volume(state')
                     a_f == (a_i * (DeltaDen + DeltaNum)) \div DeltaDen
                 IN /\ loc' = [a_i |-> a_i, v_i |-> v_i]
                    /\ activation' = a_f
                    /\ pc' = "dv_solve_f"
                    /\ UNCHANGED <<outcome, ret, errors>>
                    /\ UNCHANGED backup
            ELSE /\ Raise
                 /\ backup' = NoBackup
                 /\ UNCHANGED <<loc, activation>>
    /\ UNCHANGED <<op, args, lv_pressure, F0, E_ff, myocardial_work, t, xdmf,
                   log, pre, mesh>>

\* the state and the two scalars at the end of dVda
dVda_restore_none(cur, bak) == cur
dVda_restore(cur, bak) ==
    LET s == assign_state_variables(bak.activation, bak.pressure) IN
    [state |-> bak.state, activation |-> s.activation,
     lv_pressure |-> s.lv_pressure]

\* self.problem.solve(); v_f; dV_da = (v_f - v_i) / (a_i * delta_a_percent);
\* log; restore; return dV_da
dVda_solve_f ==
    /\ pc = "dv_solve_f"
    /\ \E conv \in BOOLEAN :
         LET solved == solve(activation, lv_pressure, conv)
             v_f == cavity_volume(solved)
             cur == [state |-> solved, activation |-> activation,
                     lv_pressure |-> lv_pressure]
         IN
         IF ~conv
         THEN \* SolverDidNotConverge leaves dVda at the second solve
              /\ state' = solved
              /\ Raise
              /\ UNCHANGED <<activation, lv_pressure, log>>
         ELSE IF loc.a_i * DeltaNum = 0
         THEN \* ZeroDivisionError leaves dVda at the division
              /\ state' = solved
              /\ Raise
              /\ UNCHANGED <<activation, lv_pressure, log>>
         ELSE LET dV_da == [kind |-> "dV_da", v_f |-> v_f, v_i |-> loc.v_i,
                            a_i |-> loc.a_i]
                  r == dVda_restore(cur, backup)
              IN /\ log' = log \o Emit([msg |-> "Computed dV/da", value |-> dV_da])
                 /\ state' = r.state
                 /\ activation' = r.activation
                 /\ lv_pressure' = r.lv_pressure
                 /\ Return(dV_da)
    /\ backup' = NoBackup /\ loc' = NoValue
    /\ UNCHANGED <<op, args, F0, E_ff, myocardial_work, t, xdmf, pre, mesh>>

\* ---- get_pressure, get_volume ----
get_pressure ==
    /\ Enter("get_pressure", NoValue)
    /\ Return([kind |-> "pressure", value |-> lv_pressure])
    /\ log' = <<>>
    /\ UNCHANGED <<activation, lv_pressure, state, F0, E_ff, myocardial_work,
                   t, xdmf, backup, loc, mesh>>

get_volume ==
    /\ Enter("get_volume", NoValue)
    /\ Return([kind |-> "volume", value |-> cavity_volume(state)])
    /\ log' = <<>>
    /\ UNCHANGED <<activation, lv_pressure, state, F0, E_ff, myocardial_work,
                   t, xdmf, backup, loc, mesh>>

\* ---- initial_loading ----
\* volume = self.compute_volume(activation_value=0, pressure_value=EDP)
initial_loading_call(P) ==
    \E EDP \in P :
        /\ Enter("initial_loading", [a |-> 0, p |-> EDP])
        /\ Goto("cv_activation")
        /\ log' = <<>>
        /\ UNCHANGED <<activation, lv_pressure, state, F0, E_ff,
                       myocardial_work, t, xdmf, backup, loc, mesh>>

\* the reference configuration after initial_loading
initial_loading_F0_stale(old, s) == DeformationGradient(pre.state)
initial_loading_F0(old, s) == DeformationGradient(s)

\* results_u, _ = state.split(deepcopy=True); self.F0 = ...; return volume
initial_loading_return ==
    /\ pc = "il_F0"
    /\ F0' = initial_loading_F0(F0, state)
    /\ Return([kind |-> "volume", value |-> loc.volume])
    /\ loc' = NoValue
    /\ UNCHANGED <<op, args, activation, lv_pressure, state, E_ff,
                   myocardial_work, t, xdmf, log, backup, pre, mesh>>

----------------------------------------------------------------------------
\* ---- _compute_fiber_strain, _compute_myocardial_work ----
\* pulse.kinematics.GreenLagrangeStrain(DeformationGradient(u) * inv(self.F0))
GreenLagrangeStrain(u, ref) == [strain_of |-> u, relative_to |-> ref]

\* there is room for one more record
Room == Len(E_ff) + Len(myocardial_work) + Len(xdmf.u) < MaxRecords

append_record_overwrite(buffer, record) ==
    IF buffer = <<>> THEN <<record>> ELSE [buffer EXCEPT ![Len(buffer)] = record]

\* the buffer after self.E_ff.append(E_ff_segment)
append_record(buffer, record) == Append(buffer, record)

\* the caller passes the displacement of the current state
compute_fiber_strain ==
    /\ Enter("_compute_fiber_strain", [u |-> state])
    /\ Room
    /\ LET E == GreenLagrangeStrain(state, F0) IN
       /\ E_ff' = append_record(E_ff, [Eff |-> E])
       /\ Return([kind |-> "Eff", value |-> E])
    /\ log' = <<>>
    /\ UNCHANGED <<activation, lv_pressure, state, F0, myocardial_work, t,
                   xdmf, backup, loc, mesh>>

compute_myocardial_work ==
    /\ Enter("_compute_myocardial_work", [u |-> state])
    /\ Room
    /\ LET E == GreenLagrangeStrain(state, F0)
           w == [tff_of |-> state, Eff |-> E]
       IN /\ myocardial_work' = append_record(myocardial_work, [work |-> w])
          /\ Return([kind |-> "work", value |-> w])
    /\ log' = <<>>
    /\ UNCHANGED <<activation, lv_pressure, state, F0, E_ff, t, xdmf, backup, loc, mesh>>

\* ---- save ----
\* xdmf.write_checkpoint(f, name, time, HDF5, append=True): one more record in
\* the series, or an I/O error that leaves the series as it was
write_checkpoint(series, value, time) == Append(series, [time |-> time, value |-> value])

\* the time indexes the caller saves at
TimeIndexes == {1}

save_call ==
    \E ti \in TimeIndexes :
        /\ Enter("save", [t |-> ti])
        /\ Room
        /\ Goto("save_u")
        /\ log' = <<>>
        /\ UNCHANGED <<activation, lv_pressure, state, F0, E_ff,
                       myocardial_work, t, xdmf, backup, loc, mesh>>

\* results_u.t = t; write_checkpoint(results_u, "u", float(t + 1), ...)
save_u ==
    /\ pc = "save_u"
    /\ \E io \in BOOLEAN :
         IF io
         THEN /\ xdmf' = [xdmf EXCEPT !.u = write_checkpoint(@, state, args.t + 1)]
              /\ Goto("save_breakpoint")
         ELSE /\ Raise
              /\ UNCHANGED xdmf
    /\ UNCHANGED <<op, args, activation, lv_pressure, state, F0, E_ff,
                   myocardial_work, t, log, backup, loc, pre, mesh>>

\* U_proj, deformed_mesh, E; breakpoint(): the debugger hands control back,
\* or it is quit (or has no terminal to read from) and BdbQuit leaves save
save_breakpoint ==
    /\ pc = "save_breakpoint"
    /\ \E resumed \in BOOLEAN :
         IF resumed THEN Goto("save_E") ELSE Raise
    /\ UNCHANGED <<op, args, activation, lv_pressure, state, F0, E_ff,
                   myocardial_work, t, xdmf, log, backup, loc, pre, mesh>>

\* E_proj = project(E, ...); write_checkpoint(E_proj, 'E', float(t + 1), ...)
save_E ==
    /\ pc = "save_E"
    /\ \E io \in BOOLEAN :
         IF io
         THEN /\ xdmf' = [xdmf EXCEPT !.E =
                    write_checkpoint(@, GreenLagrangeStrain(state, F0), args.t + 1)]
              /\ Goto("save_activation")
         ELSE /\ Raise
              /\ UNCHANGED xdmf
    /\ UNCHANGED <<op, args, activation, lv_pressure, state, F0, E_ff,
                   myocardial_work, t, log, backup, loc, pre, mesh>>

\* results_activation.vector()[:] = float(self.activation);
\* write_checkpoint(results_activation, "activation", float(t + 1), ...); self.t += 1
save_activation ==
    /\ pc = "save_activation"
    /\ \E io \in BOOLEAN :
         IF io
         THEN /\ xdmf' = [xdmf EXCEPT !.activation =
                    write_checkpoint(@, activation, args.t + 1)]
              /\ t' = t + 1
              /\ Return(NoValue)
         ELSE /\ Raise
              /\ UNCHANGED <<xdmf, t>>
    /\ UNCHANGED <<op, args, activation, lv_pressure, state, F0, E_ff,
                   myocardial_work, log, backup, loc, pre, mesh>>

\* ---- create_geometry (the method of the driver) ----
\* markers; ldrb.dolfin_ldrb(...); log; return pulse.HeartGeometry(...)
create_geometry ==
    /\ Enter("create_geometry", NoValue)
    /\ log' = Emit_create_geometry([msg |-> "Fibers regenerated", value |-> NoValue])
    /\ Return([kind |-> "geometry", value |-> NoValue])
    /\ UNCHANGED <<activation, lv_pressure, state, F0, E_ff, myocardial_work,
                   t, xdmf, backup, loc, mesh>>

\* ---- get_deformed_mesh ----
\* largest number of times the caller asks for the deformed mesh
MaxMoves == 1

\* dolfin.ALE.move(m, u): the vertices of m are moved by u, the displacement
\* of a state; the state solved under no load displaces nothing
ALE_move(m, u) == IF u = solve(0, 0, TRUE) THEN m ELSE Append(m, u)

\* results_u; results_u_interp; deformed_mesh = self.geometry.mesh (the same
\* object, not a copy); dolfin.ALE.move(deformed_mesh, results_u_interp);
\* return deformed_mesh
get_deformed_mesh ==
    /\ Enter("get_deformed_mesh", NoValue)
    /\ Len(mesh) < MaxMoves
    /\ mesh' = ALE_move(mesh, state)
    /\ Return([kind |-> "mesh", value |-> mesh'])
    /\ log' = <<>>
    /\ UNCHANGED <<activation, lv_pressure, state, F0, E_ff, myocardial_work,
                   t, xdmf, backup, loc>>

----------------------------------------------------------------------------
\* create_geometry.py: triangle_key, build_face_keys, get_fiber_angles and
\* create_geometry.  Coordinates are integers in units of a quarter of the
\* tolerance.

\* tol = 1e-6, in model units
Tol == 4

Round_floor(x, tol) == x \div tol

\* np.round(x / tol): to the nearest integer, a tie to the even one
Round(x, tol) ==
    LET q == x \div tol
        r == x % tol
    IN IF 2 * r < tol THEN q
       ELSE IF 2 * r > tol THEN q + 1
       ELSE IF q % 2 = 0 THEN q ELSE q + 1

\* rounded_coords = np.round(coords / tol).astype(int)
Rounded(cs, tol) ==
    [i \in 1..Len(cs) |-> [j \in 1..Len(cs[i]) |-> Round(cs[i][j], tol)]]

\* column j of a matrix of n rows, sorted: np.sort(m, axis=0)[:, j]
SortedColumn(m, j) ==
    LET n == Len(m)
        column == {m[i][j] : i \in 1..n}
    IN [i \in 1..n |->
          CHOOSE v \in column :
              /\ Cardinality({k \in 1..n : m[k][j] < v}) < i
              /\ Cardinality({k \in 1..n : m[k][j] <= v}) >= i]

\* tuple(m.flatten()): row after row
Flatten(m) ==
    LET n == Len(m)
        w == Len(m[1])
    IN [k \in 1..(n * w) |-> m[((k - 1) \div w) + 1][((k - 1) % w) + 1]]

triangle_key_unsorted(cs, tol) == Flatten(Rounded(cs, tol))

\* triangle_key(coords, tol): round, sort along axis 0, flatten
triangle_key(cs, tol) ==
    LET rounded_coords == Rounded(cs, tol)
        sorted_coords ==
            [i \in 1..Len(cs) |->
                [j \in 1..Len(cs[1]) |-> SortedColumn(rounded_coords, j)[i]]]
    IN Flatten(sorted_coords)

\* build_face_keys(face_indices, vertex_coordinates, tol)
build_face_keys(face_indices, vertex_coordinates, tol) ==
    {triangle_key([i \in 1..Len(indices) |-> vertex_coordinates[indices[i]]], tol) :
        indices \in face_indices}

----------------------------------------------------------------------------
\* get_default_fiber_angles()
get_default_fiber_angles ==
    [alpha_endo_lv |-> 60, alpha_epi_lv |-> -60, beta_endo_lv |-> -15, beta_epi_lv |-> 15]

\* a caller's argument: None, or a dictionary
None == [none |-> TRUE, dict |-> <<>>]
Dict(d) == [none |-> FALSE, dict |-> d]

\* "if fiber_angles": neither None nor an empty dictionary
Truthy(fa) == ~fa.none /\ DOMAIN fa.dict # {}

get_fiber_angles_unmerged(fa) ==
    IF Truthy(fa) THEN fa.dict ELSE get_default_fiber_angles

\* get_fiber_angles(fiber_angles)
get_fiber_angles(fa) ==
    LET default_fiber_angles == get_default_fiber_angles IN
    IF Truthy(fa)
    THEN [key \in DOMAIN default_fiber_angles |->
            IF key \in DOMAIN fa.dict THEN fa.dict[key]
            ELSE default_fiber_angles[key]]
    ELSE default_fiber_angles

\* the dictionaries a caller passes: any of the four keys and a foreign one
CallerKeys == {"alpha_endo_lv", "alpha_epi_lv", "beta_endo_lv", "beta_epi_lv", "gamma"}
CallerValues == {0, 45}

AngleInit ==
    /\ apc = "input"
    /\ fiber_angles \in
          {None} \cup {Dict(d) : d \in UNION {[D -> CallerValues] : D \in SUBSET CallerKeys}}
    /\ angles = NoValue

\* angles = get_fiber_angles(fiber_angles)
get_fiber_angles_apply ==
    /\ apc = "input"
    /\ angles' = get_fiber_angles(fiber_angles)
    /\ apc' = "done"
    /\ UNCHANGED fiber_angles

----------------------------------------------------------------------------
\* triangle_key applied to a face and to a reordered or perturbed copy of it.

\* largest coordinate of the first vertex, and largest perturbation
MaxCoord == 5
MaxPert == 5

\* vertices on the grid of the tolerance
GridPoints == {<<x, y, z>> : x \in {0, Tol}, y \in {0, Tol}, z \in {0, Tol}}
\* vertices whose first coordinate lies anywhere
FinePoints == {<<x, y, z>> : x \in 0..MaxCoord, y \in {0, Tol}, z \in {0}}

Permutations3 == {f \in [1..3 -> 1..3] : {f[i] : i \in 1..3} = 1..3}

KeyInit ==
    /\ kpc = "input"
    /\ coords \in {<<a, b, c>> : a \in FinePoints, b \in GridPoints, c \in GridPoints}
    /\ coords2 = coords
    /\ key1 = <<>> /\ key2 = <<>>

\* the same face with its vertices listed in another order
key_permute ==
    /\ kpc = "input"
    /\ \E f \in Permutations3 :
         /\ f # [i \in 1..3 |-> i]
         /\ coords2' = [i \in 1..3 |-> coords[f[i]]]
    /\ kpc' = "permuted"
    /\ UNCHANGED <<coords, key1, key2>>

\* the same face with one coordinate of one vertex moved by d
key_perturb ==
    /\ kpc = "input"
    /\ \E i \in 1..3, j \in 1..3, d \in (-MaxPert)..MaxPert :
         /\ d # 0
         /\ coords2' = [coords EXCEPT ![i][j] = @ + d]
    /\ kpc' = "perturbed"
    /\ UNCHANGED <<coords, key1, key2>>

\* another face: two vertices of the face exchange one of their coordinates
key_exchange ==
    /\ kpc = "input"
    /\ \E i \in 1..3, k \in 1..3, j \in 1..3 :
         /\ i < k
         /\ coords[i][j] # coords[k][j]
         /\ coords2' = [coords EXCEPT ![i][j] = coords[k][j], ![k][j] = coords[i][j]]
    /\ kpc' = "exchanged"
    /\ UNCHANGED <<coords, key1, key2>>

\* key = triangle_key(coord) for both
key_apply ==
    /\ kpc \in {"permuted", "perturbed", "exchanged"}
    /\ key1' = triangle_key(coords, Tol)
    /\ key2' = triangle_key(coords2, Tol)
    /\ kpc' = CASE kpc = "permuted" -> "permuted_done"
               [] kpc = "perturbed" -> "perturbed_done"
               [] kpc = "exchanged" -> "exchanged_done"
    /\ UNCHANGED <<coords, coords2>>

----------------------------------------------------------------------------
\* create_geometry on a small mesh: eight vertices, four exterior facets and
\* one interior facet.

\* msh.points / mesh.coordinates()
Points ==
    <<  <<0, 0, 0>>, <<Tol, 0, 0>>, <<0, Tol, Tol>>, <<Tol, 0, Tol>>,
        <<0, Tol, 0>>, <<Tol, Tol, Tol>>, <<2 * Tol, 0, 0>>, <<2 * Tol, Tol, 0>> >>

\* fc.entities(0) of the facets of the dolfin mesh
FacetVertices == << <<1, 2, 3>>, <<1, 4, 5>>, <<2, 3, 6>>, <<2, 7, 8>>, <<1, 2, 6>> >>
Facets == 1..Len(FacetVertices)
ExteriorFacets == 1..4
\* fc.exterior()
exterior(fc) == fc \in ExteriorFacets

\* the same face as the mesh file lists it, the vertices in another order
MshFace(fc) == <<FacetVertices[fc][3], FacetVertices[fc][1], FacetVertices[fc][2]>>

GroupNames == {"Epi", "Endo", "Base"}
\* markers = {"BASE": [5, 2], "ENDO": [6, 2], "EPI": [7, 2]}
Marker(name) == CASE name = "Epi" -> 7 [] name = "Endo" -> 6 [] name = "Base" -> 5

\* the orders in which the named groups present in a mesh file can come
Orders(present) ==
    {o \in [1..Cardinality(present) -> present] :
        {o[i] : i \in 1..Cardinality(present)} = present}

\* a mesh file: every exterior facet in one named group or in none, one
\* triangle block per group present, in any order, then the tetra block
MshFile(group, order) ==
    LET faces(name) == {MshFace(fc) : fc \in {f \in ExteriorFacets : group[f] = name}} IN
    [points |-> Points,
     cells |-> [i \in 1..Len(order) |-> [type |-> "triangle", data |-> faces(order[i])]]
               \o << [type |-> "tetra", data |-> {<<1, 2, 3, 6>>}] >>,
     cell_sets_dict |-> [name \in {order[i] : i \in 1..Len(order)} |-> faces(name)]]

GeoInit ==
    /\ gpc = "start"
    /\ \E group \in [ExteriorFacets -> GroupNames \cup {"none"}] :
         \E order \in Orders({group[f] : f \in ExteriorFacets} \ {"none"}) :
            msh = MshFile(group, order)
    /\ ffun = NoValue
    /\ files = {}
    /\ keys = NoValue
    /\ todo = {}
    /\ writes = NoValue

\* msh.cell_sets_dict['Epi']['triangle'], ['Endo'], ['Base'] all succeed
groups_found_unchecked(m) == TRUE
groups_found(m) == GroupNames \subseteq DOMAIN m.cell_sets_dict

\* msh = meshio.read(mesh_fname); the three cell_sets_dict look-ups
geo_read ==
    /\ gpc = "start"
    /\ gpc' = IF groups_found(msh) THEN "write_mesh" ELSE "raised"
    /\ UNCHANGED <<msh, ffun, files, keys, todo, writes>>

\* tetra_index, triangle_index; meshio.write(.xdmf); dolfin.File(.pvd).write(mesh)
geo_write_mesh ==
    /\ gpc = "write_mesh"
    /\ files' = files \cup {"mesh.xdmf", "mesh.pvd"}
    /\ gpc' = "build_keys"
    /\ UNCHANGED <<msh, ffun, keys, todo, writes>>

\* the faces of msh.cells[i].data
face_indices(m, i, name) == m.cells[i].data

\* ffun.set_all(0); epi/endo/base_face_indices; the three build_face_keys
geo_build_keys ==
    /\ gpc = "build_keys"
    /\ IF Len(msh.cells) < 3
       THEN \* IndexError at msh.cells[...]
            /\ gpc' = "raised"
            /\ UNCHANGED <<ffun, keys, todo, writes>>
       ELSE /\ ffun' = [fc \in Facets |-> 0]
            /\ writes' = [fc \in Facets |-> 0]
            /\ keys' = [epi  |-> build_face_keys(face_indices(msh, 1, "Epi"), msh.points, Tol),
                        endo |-> build_face_keys(face_indices(msh, 2, "Endo"), msh.points, Tol),
                        base |-> build_face_keys(face_indices(msh, 3, "Base"), msh.points, Tol)]
            /\ todo' = Facets
            /\ gpc' = "tag"
    /\ UNCHANGED <<msh, files>>

marker_of_base_first(key, ks) ==
    IF key \in ks.base THEN 5
    ELSE IF key \in ks.endo THEN 6
    ELSE IF key \in ks.epi THEN 7
    ELSE 0

\* the marker the loop body gives a facet, 0 standing for no assignment
marker_of(key, ks) ==
    IF key \in ks.epi THEN 7
    ELSE IF key \in ks.endo THEN 6
    ELSE IF key \in ks.base THEN 5
    ELSE 0

\* one turn of "for fc in dolfin.facets(mesh)"
geo_tag_facet ==
    /\ gpc = "tag"
    /\ todo # {}
    /\ LET fc == CHOOSE f \in todo : \A g \in todo : f <= g
           coord == [i \in 1..3 |-> Points[FacetVertices[fc][i]]]
           mk == marker_of(triangle_key(coord, Tol), keys)
       IN /\ todo' = todo \ {fc}
          /\ IF exterior(fc) /\ mk # 0
             THEN /\ ffun' = [ffun EXCEPT ![fc] = mk]
                  /\ writes' = [writes EXCEPT ![fc] = @ + 1]
             ELSE UNCHANGED <<ffun, writes>>
    /\ UNCHANGED <<gpc, msh, files, keys>>

\* write ffun; HeartGeometry; get_fiber_angles; ldrb; fiber_to_xdmf; geometry.save
geo_finish ==
    /\ gpc = "tag"
    /\ todo = {}
    /\ files' = files \cup {"mesh_ffun.xdmf", "mesh_fiber.xdmf", "mesh.h5"}
    /\ gpc' = "done"
    /\ UNCHANGED <<msh, ffun, keys, todo, writes>>

----------------------------------------------------------------------------
\* The boundary conditions built by HeartModelDynaComp.__init__:
\* self._get_bc_params(bc_params); self.bcs = self.apply_bcs().

\* largest spring stiffness a caller passes
MaxSpring == 2

\* get_default_bc_params()
get_default_bc_params == [pericardium_spring |-> 0, base_spring |-> 0]

\* self.bc_params after _get_bc_params(bc_params)
get_bc_params(bp) ==
    LET default_bc_params == get_default_bc_params IN
    IF Truthy(bp)
    THEN [key \in DOMAIN default_bc_params |->
            IF key \in DOMAIN bp.dict THEN bp.dict[key]
            ELSE default_bc_params[key]]
    ELSE default_bc_params

\* self.geometry.markers[name][0]
geometry_markers(name) ==
    CASE name = "EPI" -> Marker("Epi") [] name = "ENDO" -> Marker("Endo")
      [] name = "BASE" -> Marker("Base")

\* pulse.RobinBC(value = dolfin.Constant(value), marker = marker)
RobinBC(value, marker) == [value |-> value, marker |-> marker]

robin_bc_nonnegative(params) ==
    LET robin_bc_epi ==
            IF params.pericardium_spring >= 0
            THEN << RobinBC(params.pericardium_spring, geometry_markers("EPI")) >>
            ELSE <<>>
    IN IF params.base_spring >= 0
       THEN robin_bc_epi \o << RobinBC(params.base_spring, geometry_markers("BASE")) >>
       ELSE robin_bc_epi

\* _robin_bc()
robin_bc(params) ==
    LET robin_bc_epi ==
            IF params.pericardium_spring > 0
            THEN << RobinBC(params.pericardium_spring, geometry_markers("EPI")) >>
            ELSE <<>>
    IN IF params.base_spring > 0
       THEN robin_bc_epi \o << RobinBC(params.base_spring, geometry_markers("BASE")) >>
       ELSE robin_bc_epi

\* _neumann_bc()
neumann_bc ==
    << [traction |-> "lv_pressure", marker |-> geometry_markers("ENDO"), name |-> "lv"] >>

\* _fixed_base_z: the z component of the displacement is 0 on the base
fixed_base_z == [component |-> 2, value |-> 0, marker |-> geometry_markers("BASE")]

\* apply_bcs()
apply_bcs(params) ==
    [dirichlet |-> << fixed_base_z >>,
     neumann   |-> neumann_bc,
     robin     |-> robin_bc(params)]

\* the dictionaries a caller passes: any of the two springs and a foreign key
BcKeys == {"pericardium_spring", "base_spring", "apex_spring"}
SpringValues == (-1)..MaxSpring

BcInit ==
    /\ bpc = "start"
    /\ bc_params_arg \in
          {None} \cup {Dict(d) : d \in UNION {[D -> SpringValues] : D \in SUBSET BcKeys}}
    /\ bc_params = NoValue
    /\ bcs = NoValue

\* self._get_bc_params(bc_params)
init_get_bc_params ==
    /\ bpc = "start"
    /\ bc_params' = get_bc_params(bc_params_arg)
    /\ bpc' = "params"
    /\ UNCHANGED <<bc_params_arg, bcs>>

\* self.bcs = self.apply_bcs()
init_apply_bcs ==
    /\ bpc = "params"
    /\ bcs' = apply_bcs(bc_params)
    /\ bpc' = "done"
    /\ UNCHANGED <<bc_params_arg, bc_params>>

----------------------------------------------------------------------------
\* pv_data.py: average_array.  A number is a fraction [num, den] of integers.

\* longest array, and largest number of arrays, a caller passes
MaxLen == 3
MaxArrays == 2

\* np.linspace(0, max_length - 1, num = 100)
NumPoints == 100

\* entry k of np.linspace(0, stop, num): (k - 1) * stop / (num - 1)
linspace(stop, num, k) == [num |-> (k - 1) * stop, den |-> num - 1]

\* np.searchsorted(0..n-1, x), clipped to 1..n-1 as interp1d does: the upper
\* end (counted from 0) of the interval of the grid that x is read from
upper_index(x, n) ==
    LET ceiling == (x.num + x.den - 1) \div x.den
    IN IF ceiling < 1 THEN 1 ELSE IF ceiling > n - 1 THEN n - 1 ELSE ceiling

\* interp1d(0..len(array)-1, array, kind = "linear",
\*          fill_value = "extrapolate")(x), for an array of two entries or more
interp1d(array, x) ==
    LET hi == upper_index(x, Len(array))
        lo == hi - 1
        y_lo == array[lo + 1]
        y_hi == array[hi + 1]
    IN [num |-> (y_hi - y_lo) * (x.num - lo * x.den) + y_lo * x.den, den |-> x.den]

RECURSIVE sum_column(_, _)
\* the sum of the first m entries of a column, all of one denominator
sum_column(column, m) ==
    IF m = 0 THEN 0 ELSE column[m].num + sum_column(column, m - 1)

mean_not_divided(column) ==
    [num |-> sum_column(column, Len(column)), den |-> column[1].den]

\* np.mean(rows, axis = 0), for one column of the rows
mean(column) ==
    [num |-> sum_column(column, Len(column)), den |-> column[1].den * Len(column)]

\* max(len(array) for array in arrays)
max_length(arrs) ==
    CHOOSE n \in {Len(arrs[i]) : i \in 1..Len(arrs)} :
        \A i \in 1..Len(arrs) : Len(arrs[i]) <= n

\* average_array(arrays), every array having two entries or more
average_array(arrs) ==
    LET stop == max_length(arrs) - 1 IN
    [k \in 1..NumPoints |->
        LET average_x_k == linspace(stop, NumPoints, k)
            interpolated_y == [i \in 1..Len(arrs) |-> interp1d(arrs[i], average_x_k)]
        IN mean(interpolated_y)]

\* not a number, in every entry
NaNs == [k \in 1..NumPoints |-> [num |-> 1, den |-> 0]]

\* the values the arrays hold
ArrayValues == {0, 3}
Arrays == UNION {[1..n -> ArrayValues] : n \in 0..MaxLen}

AvgInit ==
    /\ vpc = "input"
    /\ arrays \in UNION {[1..m -> Arrays] : m \in 1..MaxArrays}
    /\ average_y = NoValue

\* average_y = average_array(arrays).  interp1d has nothing to interpolate in
\* an array of no entry and raises ValueError; in an array of one entry it
\* raises ValueError or divides 0 by 0, as the version of scipy has it
average_array_call ==
    /\ vpc = "input"
    /\ LET lengths == {Len(arrays[i]) : i \in 1..Len(arrays)} IN
       IF 0 \in lengths
       THEN vpc' = "raised" /\ average_y' = NoValue
       ELSE IF 1 \in lengths
       THEN \/ vpc' = "raised" /\ average_y' = NoValue
            \/ vpc' = "done" /\ average_y' = NaNs
       ELSE vpc' = "done" /\ average_y' = average_array(arrays)
    /\ UNCHANGED arrays

----------------------------------------------------------------------------
\* the parts of the model a specification does not run
GeoOff == gpc = "off" /\ msh = NoValue /\ ffun = NoValue /\ files = {}
          /\ keys = NoValue /\ todo = {} /\ writes = NoValue
KeyOff == kpc = "off" /\ coords = <<>> /\ coords2 = <<>> /\ key1 = <<>> /\ key2 = <<>>
AngleOff == apc = "off" /\ fiber_angles = NoValue /\ angles = NoValue
BcOff == bpc = "off" /\ bc_params_arg = NoValue /\ bc_params = NoValue /\ bcs = NoValue
AvgOff == vpc = "off" /\ arrays = <<>> /\ average_y = NoValue

Init == DriverInit /\ GeoOff /\ KeyOff /\ AngleOff /\ BcOff /\ AvgOff

\* the driver leaves the other parts of the model alone
DriverFrame == UNCHANGED <<geoVars, keyVars, angleVars, bcVars, avgVars>>

\* the load path: compute_volume, dVda, initial_loading and the two getters
Next ==
    \/ (compute_volume_call(Activations, Pressures) /\ DriverFrame)
    \/ (iterate_activation /\ DriverFrame)
    \/ (iterate_pressure /\ DriverFrame)
    \/ (compute_volume_return /\ DriverFrame)
    \/ (dVda_call(Activations, Pressures) /\ DriverFrame)
    \/ (dVda_solve_i /\ DriverFrame)
    \/ (dVda_solve_f /\ DriverFrame)
    \/ (get_pressure /\ DriverFrame)
    \/ (get_volume /\ DriverFrame)
    \/ (initial_loading_call(Pressures) /\ DriverFrame)
    \/ (initial_loading_return /\ DriverFrame)

Spec == Init /\ [][Next]_vars

\* every operation of the driver, the load targets being one unit each
NextDriver ==
    \/ (compute_volume_call({ActUnit}, {PresUnit}) /\ DriverFrame)
    \/ (iterate_activation /\ DriverFrame)
    \/ (iterate_pressure /\ DriverFrame)
    \/ (compute_volume_return /\ DriverFrame)
    \/ (dVda_call({ActUnit}, {PresUnit}) /\ DriverFrame)
    \/ (dVda_solve_i /\ DriverFrame)
    \/ (dVda_solve_f /\ DriverFrame)
    \/ (get_pressure /\ DriverFrame)
    \/ (get_volume /\ DriverFrame)
    \/ (initial_loading_call({PresUnit}) /\ DriverFrame)
    \/ (initial_loading_return /\ DriverFrame)
    \/ (compute_fiber_strain /\ DriverFrame)
    \/ (compute_myocardial_work /\ DriverFrame)
    \/ (save_call /\ DriverFrame)
    \/ (save_u /\ DriverFrame)
    \/ (save_breakpoint /\ DriverFrame)
    \/ (save_E /\ DriverFrame)
    \/ (save_activation /\ DriverFrame)

SpecDriver == Init /\ [][NextDriver]_vars

\* the same with create_geometry and get_deformed_mesh
NextDriverAll ==
    \/ (compute_volume_call({ActUnit}, {PresUnit}) /\ DriverFrame)
    \/ (iterate_activation /\ DriverFrame)
    \/ (iterate_pressure /\ DriverFrame)
    \/ (compute_volume_return /\ DriverFrame)
    \/ (dVda_call({ActUnit}, {PresUnit}) /\ DriverFrame)
    \/ (dVda_solve_i /\ DriverFrame)
    \/ (dVda_solve_f /\ DriverFrame)
    \/ (get_pressure /\ DriverFrame)
    \/ (get_volume /\ DriverFrame)
    \/ (initial_loading_call({PresUnit}) /\ DriverFrame)
    \/ (initial_loading_return /\ DriverFrame)
    \/ (compute_fiber_strain /\ DriverFrame)
    \/ (compute_myocardial_work /\ DriverFrame)
    \/ (save_call /\ DriverFrame)
    \/ (save_u /\ DriverFrame)
    \/ (save_breakpoint /\ DriverFrame)
    \/ (save_E /\ DriverFrame)
    \/ (save_activation /\ DriverFrame)
    \/ (create_geometry /\ DriverFrame)
    \/ (get_deformed_mesh /\ DriverFrame)

SpecDriverAll == Init /\ [][NextDriverAll]_vars

----------------------------------------------------------------------------
\* Properties of the load-path driver.

LoggedVolume == \E i \in 1..Len(log) : log[i].msg = "Computed volume"

\* C1: a dVda call that returns leaves the activation scalar, the pressure
\* scalar and the deformation state (hence get_volume()) equal to what the
\* caller observed immediately before the call.
C1_dVda_restores ==
    (pc = "idle" /\ op = "dVda" /\ outcome = "returned") =>
        /\ activation = pre.activation
        /\ lv_pressure = pre.lv_pressure
        /\ state = pre.state
        /\ cavity_volume(state) = cavity_volume(pre.state)

\* a dVda call returned after moving the driver to another load pair
C1_witness ==
    /\ pc = "idle" /\ op = "dVda" /\ outcome = "returned"
    /\ args.a # pre.activation /\ args.p # pre.lv_pressure
    /\ ret.kind = "dV_da"

\* C2: when an error leaves dVda (a solve that does not converge, or the
\* division by zero at activation 0), the deformation state and the two
\* scalars are back at their values from before the call.
C2_dVda_restores_on_error ==
    (pc = "idle" /\ op = "dVda" /\ outcome = "raised") =>
        /\ activation = pre.activation
        /\ lv_pressure = pre.lv_pressure
        /\ state = pre.state

C4_activation_then_pressure ==
    /\ (pc = "cv_activation" /\ op = "compute_volume") =>
            lv_pressure = pre.lv_pressure
    /\ (pc \in {"cv_pressure", "cv_volume"} /\ op = "compute_volume") =>
            activation = args.a
    /\ (pc = "idle" /\ op = "compute_volume" /\ outcome = "returned") =>
            /\ activation = args.a
            /\ lv_pressure = args.p
            /\ state = solve(args.a, args.p, TRUE)
            /\ ret = [kind |-> "volume",
                      value |-> cavity_volume(solve(args.a, args.p, TRUE))]

\* a compute_volume call returned after changing both controls
C4_witness ==
    /\ pc = "idle" /\ op = "compute_volume" /\ outcome = "returned"
    /\ args.a # pre.activation /\ args.p # pre.lv_pressure

\* C10: F0 is the identity from construction, is set by initial_loading to
\* the deformation gradient of the state solved at (activation 0, target
\* pressure), and no other operation changes it.
C10_F0_set_by_initial_loading ==
    /\ F0 = Identity
    /\ []((op = "initial_loading" /\ outcome = "returned") =>
            F0 = DeformationGradient(solve(0, args.p, TRUE)))
    /\ [][F0' # F0 =>
            /\ pc = "il_F0" /\ op = "initial_loading"
            /\ F0' = DeformationGradient(solve(0, args.p, TRUE))]_vars

\* a save went through after initial_loading had set F0
C10_witness ==
    /\ pc = "idle" /\ op = "save" /\ outcome = "returned"
    /\ F0 = DeformationGradient(solve(0, PresUnit, TRUE))
    /\ Len(E_ff) > 0

\* what a caller observes of a driver at rest in the reference state
ReferenceObserved ==
    [activation |-> 0, lv_pressure |-> 0, state |-> solve(0, 0, TRUE)]

\* C16: construction leaves the driver at (activation 0, pressure 0) with that
\* state solved, and a compute_volume(0, 0) called on the driver as constructed
\* returns the cavity volume of the reference state and leaves the load state
\* at (0, 0) and the deformation state as it was.
C16_reference_volume_after_construction ==
    /\ (op = "__init__") =>
          /\ pc = "idle"
          /\ activation = 0 /\ lv_pressure = 0
          /\ state.ok /\ state.a = 0 /\ state.p = 0
    /\ (/\ pc = "idle" /\ op = "compute_volume" /\ outcome = "returned"
        /\ args = [a |-> 0, p |-> 0]
        /\ pre = ReferenceObserved) =>
          /\ ret = [kind |-> "volume", value |-> cavity_volume(pre.state)]
          /\ activation = 0 /\ lv_pressure = 0
          /\ state = pre.state

\* compute_volume(0, 0) returned on a driver that no call had moved
C16_witness ==
    /\ pc = "idle" /\ op = "compute_volume" /\ outcome = "returned"
    /\ args = [a |-> 0, p |-> 0]
    /\ pre = ReferenceObserved
    /\ F0 = Identity /\ errors = 0
    /\ Len(log) = 1

\* buffer "after" is buffer "before" with exactly one record appended
OneAppended(before, after) ==
    /\ Len(after) = Len(before) + 1
    /\ SubSeq(after, 1, Len(before)) = before

\* C12: E_ff and myocardial_work are append-only: a call of
\* _compute_fiber_strain (of _compute_myocardial_work) appends exactly one
\* record to its own buffer and leaves the earlier records and the other buffer
\* as they were, and no other step of the driver changes either buffer.
C12_buffers_append_only ==
    [][/\ (pc = "idle" /\ op' = "_compute_fiber_strain") =>
              (OneAppended(E_ff, E_ff') /\ myocardial_work' = myocardial_work)
       /\ (pc = "idle" /\ op' = "_compute_myocardial_work") =>
              (OneAppended(myocardial_work, myocardial_work') /\ E_ff' = E_ff)
       /\ (E_ff' # E_ff) => (pc = "idle" /\ op' = "_compute_fiber_strain")
       /\ (myocardial_work' # myocardial_work) =>
              (pc = "idle" /\ op' = "_compute_myocardial_work")]_vars

\* two different strain records are in the buffer, with a call of another
\* operation after them
C12_witness ==
    /\ Len(E_ff) = 2 /\ E_ff[1] # E_ff[2]
    /\ pc = "idle" /\ op = "dVda" /\ outcome = "returned"

\* the newest record of a time series
Last(series) == series[Len(series)]

\* C13: a save(time_index) that returns has appended exactly one record to
\* each of the three time series, each keyed by time_index, the activation
\* record holding the current activation scalar, has increased the step counter
\* by exactly 1 and has left the load state as it was.
C13_save_keyed_by_time_index ==
    /\ []((pc = "idle" /\ op = "save" /\ outcome = "returned") =>
            /\ Last(xdmf.u).time = args.t
            /\ Last(xdmf.E).time = args.t
            /\ Last(xdmf.activation).time = args.t
            /\ Last(xdmf.activation).value = activation
            /\ Observed = pre)
    /\ [][(op' = "save" /\ outcome' = "returned") =>
            \/ UNCHANGED <<xdmf, t>>
            \/ /\ pc = "save_activation"
               /\ t' = t + 1
               /\ OneAppended(xdmf.activation, xdmf'.activation)
               /\ xdmf'.u = xdmf.u /\ xdmf'.E = xdmf.E]_vars
    /\ [][(op' = "save" /\ pc' = "save_breakpoint") =>
            (OneAppended(xdmf.u, xdmf'.u) /\ t' = t)]_vars
    /\ [][(op' = "save" /\ pc' = "save_activation") =>
            (OneAppended(xdmf.E, xdmf'.E) /\ t' = t)]_vars

\* C20: whenever a save ends, by returning or by an I/O error of one of its
\* three writes, the three time series hold the same number of records and
\* that number is the step counter: a failing save adds a record to none of
\* them and does not advance the counter.
C20_save_all_or_nothing ==
    [][(pc \in {"save_u", "save_E", "save_activation"} /\ pc' = "idle") =>
          /\ Len(xdmf'.u) = t'
          /\ Len(xdmf'.E) = t'
          /\ Len(xdmf'.activation) = t'
          /\ (outcome' = "raised") => (xdmf'.u = xdmf.u /\ t' = t)]_vars

\* the entries of the log that carry a message
Logged(message) == {i \in 1..Len(log) : log[i].msg = message}

\* C14: every informational message of the driver (the computed volume, the
\* two messages of dVda, the fibers-regenerated message of create_geometry) is
\* emitted by rank 0 and by no other rank, so each appears exactly once per
\* call whatever the size of the communicator.
C14_logging_on_rank_0_only ==
    /\ \A i \in 1..Len(log) : log[i].rank = 0
    /\ (pc = "idle" /\ outcome = "returned") =>
          /\ (op \in {"compute_volume", "initial_loading"}) =>
                Cardinality(Logged("Computed volume")) = 1
          /\ (op = "dVda") =>
                /\ Cardinality(Logged("Computing dV/da")) = 1
                /\ Cardinality(Logged("Computed dV/da")) = 1
          /\ (op = "create_geometry") =>
                Cardinality(Logged("Fibers regenerated")) = 1

\* C15: no operation of the driver moves the mesh of its geometry: after any
\* sequence of calls the vertex coordinates of self.geometry.mesh are those of
\* construction, get_deformed_mesh included.
C15_reference_mesh_unchanged ==
    mesh = ReferenceMesh

----------------------------------------------------------------------------
\* triangle_key on its own
InitKey == DriverInit /\ GeoOff /\ KeyInit /\ AngleOff /\ BcOff /\ AvgOff

NextKey ==
    \/ (key_permute /\ UNCHANGED <<driverVars, geoVars, angleVars, bcVars, avgVars>>)
    \/ (key_perturb /\ UNCHANGED <<driverVars, geoVars, angleVars, bcVars, avgVars>>)
    \/ (key_exchange /\ UNCHANGED <<driverVars, geoVars, angleVars, bcVars, avgVars>>)
    \/ (key_apply /\ UNCHANGED <<driverVars, geoVars, angleVars, bcVars, avgVars>>)

SpecKey == InitKey /\ [][NextKey]_vars

\* C6: the key of a face is the same for every order of its three vertices.
C6_key_permutation_invariant ==
    (kpc = "permuted_done") => key1 = key2

\* the key was computed for a reordered face of three distinct vertices
C6_witness ==
    /\ kpc = "permuted_done"
    /\ coords2 # coords
    /\ Cardinality({coords[i] : i \in 1..3}) = 3
    /\ key1 # triangle_key_unsorted(coords2, Tol)

\* the coordinate that was moved, before and after
Moved == CHOOSE ij \in (1..3) \X (1..3) : coords2[ij[1]][ij[2]] # coords[ij[1]][ij[2]]
MovedFrom == coords[Moved[1]][Moved[2]]
MovedBy == coords2[Moved[1]][Moved[2]] - MovedFrom
Abs(x) == IF x < 0 THEN -x ELSE x

\* C7 as stated: a perturbation smaller than tol never changes the key, a
\* perturbation larger than tol always changes it.
C7_key_tolerance ==
    (kpc = "perturbed_done") =>
        /\ (Abs(MovedBy) < Tol => key1 = key2)
        /\ (Abs(MovedBy) > Tol => key1 # key2)

\* C7 amended: a perturbation larger than tol always changes the key; one
\* smaller than tol changes no entry of the key by more than one, and leaves
\* the key as it was when the coordinate lies on a multiple of tol and moves by
\* less than tol / 2.
C7_key_tolerance_amended ==
    (kpc = "perturbed_done") =>
        /\ (Abs(MovedBy) > Tol => key1 # key2)
        /\ (Abs(MovedBy) < Tol =>
                \A k \in 1..Len(key1) : Abs(key1[k] - key2[k]) <= 1)
        /\ ((MovedFrom % Tol = 0 /\ 2 * Abs(MovedBy) < Tol) => key1 = key2)

\* a coordinate on the grid was moved by less than half the tolerance, with
\* the key computed for both faces
C7_witness ==
    /\ kpc = "perturbed_done"
    /\ MovedFrom = Tol /\ MovedBy = -1
    /\ key1 = key2

\* the rounded vertices of a face, as a set
RoundedVertices(cs) == {Rounded(cs, Tol)[i] : i \in 1..3}

\* the three rounded vertices of a face are not on one line
NonDegenerate(cs) ==
    LET r == Rounded(cs, Tol)
        u == [j \in 1..3 |-> r[2][j] - r[1][j]]
        v == [j \in 1..3 |-> r[3][j] - r[1][j]]
    IN <<u[2] * v[3] - u[3] * v[2], u[3] * v[1] - u[1] * v[3],
         u[1] * v[2] - u[2] * v[1]>> # <<0, 0, 0>>

\* C19: triangle_key is injective on faces up to the order of the vertices:
\* two non-degenerate triangles whose sets of rounded vertices differ never
\* have the same key.
C19_key_injective ==
    (/\ kpc \in {"permuted_done", "perturbed_done", "exchanged_done"}
     /\ NonDegenerate(coords) /\ NonDegenerate(coords2)
     /\ RoundedVertices(coords) # RoundedVertices(coords2)) =>
        key1 # key2

----------------------------------------------------------------------------
\* get_fiber_angles on its own
InitAngles == DriverInit /\ GeoOff /\ KeyOff /\ AngleInit /\ BcOff /\ AvgOff

NextAngles ==
    get_fiber_angles_apply /\ UNCHANGED <<driverVars, geoVars, keyVars, bcVars, avgVars>>

SpecAngles == InitAngles /\ [][NextAngles]_vars

FourKeys == {"alpha_endo_lv", "alpha_epi_lv", "beta_endo_lv", "beta_epi_lv"}

\* C9: the result has exactly the four angle keys; a key the caller gave keeps
\* the caller's value, a missing key takes its default (60, -60, -15, 15), a
\* foreign key is dropped, and None or an empty dictionary gives the defaults.
C9_fiber_angles_merge ==
    (apc = "done") =>
        /\ DOMAIN angles = FourKeys
        /\ (fiber_angles.none \/ DOMAIN fiber_angles.dict = {}) =>
              /\ angles["alpha_endo_lv"] = 60 /\ angles["alpha_epi_lv"] = -60
              /\ angles["beta_endo_lv"] = -15 /\ angles["beta_epi_lv"] = 15
        /\ (~fiber_angles.none) =>
              \A key \in FourKeys :
                 IF key \in DOMAIN fiber_angles.dict
                 THEN angles[key] = fiber_angles.dict[key]
                 ELSE angles[key] = (CASE key = "alpha_endo_lv" -> 60
                                       [] key = "alpha_epi_lv" -> -60
                                       [] key = "beta_endo_lv" -> -15
                                       [] key = "beta_epi_lv" -> 15)

\* a dictionary with one angle, a foreign key and three angles missing was merged
C9_witness ==
    /\ apc = "done"
    /\ ~fiber_angles.none
    /\ DOMAIN fiber_angles.dict = {"alpha_epi_lv", "gamma"}
    /\ angles["alpha_epi_lv"] = 45 /\ angles["beta_epi_lv"] = 15

----------------------------------------------------------------------------
\* create_geometry on its own
InitGeo == DriverInit /\ GeoInit /\ KeyOff /\ AngleOff /\ BcOff /\ AvgOff

NextGeo ==
    \/ (geo_read /\ UNCHANGED <<driverVars, keyVars, angleVars, bcVars, avgVars>>)
    \/ (geo_write_mesh /\ UNCHANGED <<driverVars, keyVars, angleVars, bcVars, avgVars>>)
    \/ (geo_build_keys /\ UNCHANGED <<driverVars, keyVars, angleVars, bcVars, avgVars>>)
    \/ (geo_tag_facet /\ UNCHANGED <<driverVars, keyVars, angleVars, bcVars, avgVars>>)
    \/ (geo_finish /\ UNCHANGED <<driverVars, keyVars, angleVars, bcVars, avgVars>>)

SpecGeo == InitGeo /\ [][NextGeo]_vars

\* the named groups of the mesh file an exterior facet belongs to
GroupsOf(fc) ==
    {name \in DOMAIN msh.cell_sets_dict : MshFace(fc) \in msh.cell_sets_dict[name]}

\* C5: after tagging, an exterior facet in exactly one named group carries
\* that group's marker (Epi 7, Endo 6, Base 5), and a facet in no named group,
\* like every interior facet, carries 0; so a group of k faces gives exactly k
\* facets with its marker.
C5_tagging_by_named_group ==
    (gpc = "done") =>
        /\ \A fc \in Facets :
              IF exterior(fc) /\ Cardinality(GroupsOf(fc)) = 1
              THEN \A name \in GroupsOf(fc) : ffun[fc] = Marker(name)
              ELSE ffun[fc] = 0
        /\ \A name \in GroupNames :
              Cardinality({fc \in Facets : ffun[fc] = Marker(name)})
                  = Cardinality(msh.cell_sets_dict[name])

\* the key the tagging loop computes for a facet of the dolfin mesh
FacetKey(fc) == triangle_key([i \in 1..3 |-> Points[FacetVertices[fc][i]]], Tol)

\* C18: an exterior facet gets at most one marker, by the priority Epi, Endo,
\* Base: 7 when its key is in the Epi key set whatever other sets hold it, 6
\* when it is in the Endo set and not the Epi set, 5 when it is in the Base set
\* only; and the marker of a facet is written at most once during tagging.
C18_priority_epi_endo_base ==
    /\ (gpc \in {"tag", "done"}) => \A fc \in Facets : writes[fc] <= 1
    /\ (gpc = "done") =>
          \A fc \in ExteriorFacets :
              /\ (FacetKey(fc) \in keys.epi) => ffun[fc] = 7
              /\ (FacetKey(fc) \in keys.endo \ keys.epi) => ffun[fc] = 6
              /\ (FacetKey(fc) \in keys.base \ (keys.epi \cup keys.endo)) => ffun[fc] = 5

\* tagging ended with a facet whose key is in the Epi and the Endo set marked
\* 7, by one write
C18_witness ==
    /\ gpc = "done"
    /\ \E fc \in ExteriorFacets :
          FacetKey(fc) \in keys.epi \cap keys.endo /\ ffun[fc] = 7 /\ writes[fc] = 1

\* C8: when one of the groups Epi, Endo, Base is absent from the mesh file,
\* create_geometry ends in an error with no facet marked and no file written,
\* and never returns a geometry.
C8_missing_group_is_an_error ==
    (~(GroupNames \subseteq DOMAIN msh.cell_sets_dict)) =>
        /\ gpc \in {"start", "raised"}
        /\ files = {}
        /\ ffun = NoValue

\* create_geometry raised on a mesh file that has Epi and Endo but no Base
C8_witness ==
    /\ gpc = "raised"
    /\ DOMAIN msh.cell_sets_dict = {"Epi", "Endo"}
    /\ files = {}

----------------------------------------------------------------------------
\* the boundary conditions on their own
InitBcs == DriverInit /\ GeoOff /\ KeyOff /\ AngleOff /\ BcInit /\ AvgOff

NextBcs ==
    \/ (init_get_bc_params /\ UNCHANGED <<driverVars, geoVars, keyVars, angleVars, avgVars>>)
    \/ (init_apply_bcs /\ UNCHANGED <<driverVars, geoVars, keyVars, angleVars, avgVars>>)

SpecBcs == InitBcs /\ [][NextBcs]_vars

\* the stiffness the caller gave for a spring, 0 when bc_params is None, empty
\* or lacks the key
SpringGiven(key) ==
    IF ~bc_params_arg.none /\ key \in DOMAIN bc_params_arg.dict
    THEN bc_params_arg.dict[key] ELSE 0

\* the Robin terms of self.bcs on a marker
RobinOn(marker) == {i \in 1..Len(bcs.robin) : bcs.robin[i].marker = marker}

\* C11: the boundary conditions hold one Robin term for each of
\* pericardium_spring (on EPI, 7) and base_spring (on BASE, 5) that is strictly
\* positive, the epicardial one first, and none for a spring that is 0 or
\* missing; with the defaults there is no Robin term, exactly one Dirichlet
\* constraint, on BASE, and exactly one Neumann term, on ENDO (6).
C11_robin_terms ==
    (bpc = "done") =>
        /\ \A spring \in {[key |-> "pericardium_spring", marker |-> 7],
                          [key |-> "base_spring", marker |-> 5]} :
              /\ (SpringGiven(spring.key) > 0) =>
                    /\ Cardinality(RobinOn(spring.marker)) = 1
                    /\ \A i \in RobinOn(spring.marker) :
                          bcs.robin[i].value = SpringGiven(spring.key)
              /\ (SpringGiven(spring.key) = 0) => RobinOn(spring.marker) = {}
        /\ (SpringGiven("pericardium_spring") > 0 /\ SpringGiven("base_spring") > 0) =>
              (bcs.robin[1].marker = 7 /\ bcs.robin[2].marker = 5)
        /\ \A i \in 1..Len(bcs.robin) : bcs.robin[i].marker \in {7, 5}
        /\ (bc_params_arg.none \/ DOMAIN bc_params_arg.dict = {}) =>
              /\ bcs.robin = <<>>
              /\ Len(bcs.dirichlet) = 1 /\ bcs.dirichlet[1].marker = 5
              /\ Len(bcs.neumann) = 1 /\ bcs.neumann[1].marker = 6

\* the boundary conditions were built for a positive epicardial spring, a base
\* spring of 0 and a foreign key
C11_witness ==
    /\ bpc = "done"
    /\ ~bc_params_arg.none
    /\ DOMAIN bc_params_arg.dict = {"pericardium_spring", "base_spring", "apex_spring"}
    /\ bc_params_arg.dict["pericardium_spring"] = 2
    /\ bc_params_arg.dict["base_spring"] = 0
    /\ Len(bcs.robin) = 1

----------------------------------------------------------------------------
\* average_array on its own
InitAvg == DriverInit /\ GeoOff /\ KeyOff /\ AngleOff /\ BcOff /\ AvgInit

NextAvg ==
    average_array_call /\ UNCHANGED <<driverVars, geoVars, keyVars, angleVars, bcVars>>

SpecAvg == InitAvg /\ [][NextAvg]_vars

\* every array holds the constant c and nothing else, all of one length
ConstantArrays(c) ==
    /\ \A i \in 1..Len(arrays) : Len(arrays[i]) = Len(arrays[1])
    /\ \A i \in 1..Len(arrays) : \A k \in 1..Len(arrays[i]) : arrays[i][k] = c

\* the result holds the constant c and nothing else
ConstantResult(c) ==
    \A k \in 1..Len(average_y) :
        average_y[k].den # 0 /\ average_y[k].num = c * average_y[k].den

\* C17 as stated: for equal-length arrays that all hold one constant the
\* result holds only that constant, and for arrays of any lengths the result
\* has 100 entries.
C17_average_array ==
    (vpc # "input") =>
        /\ vpc = "done"
        /\ Len(average_y) = 100
        /\ \A c \in ArrayValues :
              (Len(arrays[1]) > 0 /\ ConstantArrays(c)) => ConstantResult(c)

\* C17 amended: the same for arrays of two entries or more.
C17_average_array_amended ==
    (vpc # "input" /\ \A i \in 1..Len(arrays) : Len(arrays[i]) >= 2) =>
        /\ vpc = "done"
        /\ Len(average_y) = 100
        /\ \A c \in ArrayValues : ConstantArrays(c) => ConstantResult(c)

\* the average of two arrays of three entries that all hold 3 was taken
C17_witness ==
    /\ vpc = "done"
    /\ Len(arrays) = 2 /\ Len(arrays[1]) = 3 /\ ConstantArrays(3)
    /\ Len(average_y) = 100 /\ ConstantResult(3)
====
